---------------------------- MODULE Spec2Model ----------------------------
(*************************************************************************)
(* Model of the two scripts of mdayku/twimc:                              *)
(*   src/data/cfpb_importer.py   complaint CSV -> fact records            *)
(*   src/scripts/chat_metrics.py chat export -> turns -> summary          *)
(*                                                                        *)
(* Four specifications share the variables below:                         *)
(*   SpecImport   convert_complaints_to_facts and main of the importer    *)
(*   SpecRead     read_chat (skip, parse, sort)                           *)
(*   SpecTurns    main of chat_metrics after loading: group_turns and     *)
(*                summarize                                               *)
(*   SpecClassify classify_turn on pairs of texts                         *)
(*                                                                        *)
(* Texts are sequences of lexical units (a keyword, a marker prefix, a    *)
(* blank); each unit has a length in characters and word/non-word edges,  *)
(* so that len(), lower(), strip(), \b and \s* act on them as they do on  *)
(* the characters they stand for.                                         *)
(*************************************************************************)
EXTENDS Integers, Sequences, FiniteSets, TLC

VARIABLES
    pc,             \* position of the running script
    csv_exists,     \* importer: can the source be opened
    csv_rows,       \* importer: rows the DictReader yields (or fails on)
    limit,          \* importer: --limit
    i,              \* importer: enumerate() index of the next row
    facts,          \* importer: convert_complaints_to_facts.facts
    result,         \* importer: value returned to main
    output_file,    \* importer: content of --output ("none": not written)
    items,          \* chat: message objects of the export
    msgs,           \* chat: read_chat's list / group_turns' argument
    cap_minutes,    \* chat: --cap-mins
    turns,          \* chat: group_turns' result
    summary,        \* chat: summarize's result
    user_text,      \* classifier: first argument
    assistant_text, \* classifier: second argument
    label           \* classifier: returned category

vars == <<pc, csv_exists, csv_rows, limit, i, facts, result, output_file,
          items, msgs, cap_minutes, turns, summary,
          user_text, assistant_text, label>>

importVars == <<csv_exists, csv_rows, limit, i, facts, result, output_file>>
chatVars == <<items, msgs, cap_minutes, turns, summary>>
classifyVars == <<user_text, assistant_text, label>>

None == "None"

(*************************************************************************)
(* Bounds of the model                                                    *)
(*************************************************************************)
MaxRows == 3
MaxLimit == 3
MaxItems == 3
MaxMsgs == 3
MaxBlobLen == 4

SeqsUpTo(S, n) == UNION {[1..k -> S] : k \in 0..n}
Min(a, b) == IF a <= b THEN a ELSE b
\* the first n elements of s (all of s when it is shorter)
Take(s, n) == SubSeq(s, 1, Min(n, Len(s)))

(*************************************************************************)
(* Texts of chat messages                                                 *)
(*************************************************************************)
\* lexical units: the marker prefix in two cases, a blank, and words: "test"
\* and "build" are mode tags and keywords, "plan" is a mode tag and no
\* keyword, "traceback" and "implement" are keywords only
Vocabulary ==
    {"mode:", "MODE:", " ", "test", "plan", "build", "traceback", "implement"}

\* number of characters of a unit
CharLen(tok) ==
    CASE tok \in {" ", "\n"} -> 1
      [] tok \in {"test", "plan"} -> 4
      [] tok \in {"mode:", "MODE:", "build"} -> 5
      [] tok \in {"traceback", "implement"} -> 9
      [] OTHER -> 1

RECURSIVE len(_)
\* len(text): characters of a text
len(text) ==
    IF text = <<>> THEN 0 ELSE CharLen(Head(text)) + len(Tail(text))

\* str.lower() on one unit
LowerTok(tok) ==
    CASE tok = "MODE:" -> "mode:"
      [] OTHER -> tok

\* str.lower()
lower(text) == [k \in 1..Len(text) |-> LowerTok(text[k])]

\* \s
IsSpace(tok) == tok \in {" ", "\n"}
\* does the unit begin / end with a word character (\w)
WordStart(tok) == ~IsSpace(tok)
WordEnd(tok) == ~IsSpace(tok) /\ LowerTok(tok) # "mode:"

\* \b between positions k-1 and k of text (k in 1..Len+1)
Boundary(text, k) ==
    LET before == IF k = 1 THEN FALSE ELSE WordEnd(text[k-1])
        after == IF k = Len(text) + 1 THEN FALSE ELSE WordStart(text[k])
    IN before # after

RECURSIVE SkipSpace(_, _)
\* \s* is greedy: first position at or after k that holds no blank
SkipSpace(text, k) ==
    IF k <= Len(text) /\ IsSpace(text[k]) THEN SkipSpace(text, k + 1) ELSE k

\* re.match of \bMODE:\s*<tag>\b at position k, flags=re.I
MatchModeAt(text, tag, k) ==
    /\ LowerTok(text[k]) = "mode:"
    /\ Boundary(text, k)
    /\ LET j == SkipSpace(text, k + 1)
       IN /\ j <= Len(text)
          /\ LowerTok(text[j]) = tag
          /\ Boundary(text, j + 1)

RECURSIVE ScanMode(_, _, _)
ScanMode(text, tag, k) ==
    IF k > Len(text) THEN FALSE
    ELSE IF MatchModeAt(text, tag, k) THEN TRUE
    ELSE ScanMode(text, tag, k + 1)

\* re.search(r'\bMODE:\s*<tag>\b', blob, flags=re.I)
search_mode(text, tag) == ScanMode(text, tag, 1)

RECURSIVE ScanWord(_, _, _)
ScanWord(text, words, k) ==
    IF k > Len(text) THEN FALSE
    ELSE IF /\ LowerTok(text[k]) \in words
            /\ Boundary(text, k)
            /\ Boundary(text, k + 1) THEN TRUE
    ELSE ScanWord(text, words, k + 1)

\* re.search(r"\b(w1|w2|...)\b", text, flags=re.I)
search(words, text) == ScanWord(text, words, 1)

\* the keyword tables: the single-word alternatives of each pattern
DEBUG_PATTERNS ==
    << {"error", "exception", "traceback", "crash", "panic", "bug", "fix",
        "regression"},
       {"failed", "failing", "broken", "hangs", "timeout", "segfault"},
       {"404", "401", "500", "403", "502", "503"},
       {"undefined", "typeerror", "nameerror", "keyerror", "indexerror",
        "referenceerror"},
       {"log", "stderr", "stdout", "logger"},
       {},
       {"rollback", "hotfix", "incident"} >>

FEATURE_PATTERNS ==
    << {"implement", "add", "create", "build", "ship", "scaffold", "wire",
        "integrate"},
       {"feature", "endpoint", "api", "component", "screen", "ui", "route",
        "schema", "migration", "model"},
       {"refactor", "optimise", "optimize", "rewrite"} >>

TEST_DOCS_CI_PATTERNS ==
    << {"test", "e2e", "playwright", "pytest", "jest"},
       {"doc", "docs", "readme", "changelog", "prd", "adr", "spec"},
       {"ci", "pipeline", "lint", "typecheck", "tsc", "ruff", "black",
        "alembic"} >>

RECURSIVE any_match(_, _)
any_match(text, patterns) ==
    IF patterns = <<>> THEN FALSE
    ELSE IF search(Head(patterns), text) THEN TRUE
    ELSE any_match(text, Tail(patterns))

\* variant: the keyword tables are consulted before the MODE tags
classify_turn_keywords_first(u_text, a_text) ==
    LET blob == lower(u_text \o <<"\n">> \o a_text)
    IN IF any_match(blob, DEBUG_PATTERNS) THEN "DEBUG_LOG"
       ELSE IF any_match(blob, TEST_DOCS_CI_PATTERNS) THEN "TEST_DOCS_CI"
       ELSE IF any_match(blob, FEATURE_PATTERNS) THEN "FEATURE_DEV"
       ELSE IF search_mode(blob, "test") THEN "TEST_DOCS_CI"
       ELSE IF search_mode(blob, "docs") THEN "TEST_DOCS_CI"
       ELSE IF search_mode(blob, "ask") THEN "OTHER"
       ELSE IF search_mode(blob, "plan") THEN "OTHER"
       ELSE IF search_mode(blob, "build") THEN "FEATURE_DEV"
       ELSE "OTHER"

\* variant: the feature table is consulted before the other two
classify_turn_feature_first(u_text, a_text) ==
    LET blob == lower(u_text \o <<"\n">> \o a_text)
    IN IF search_mode(blob, "test") THEN "TEST_DOCS_CI"
       ELSE IF search_mode(blob, "docs") THEN "TEST_DOCS_CI"
       ELSE IF search_mode(blob, "ask") THEN "OTHER"
       ELSE IF search_mode(blob, "plan") THEN "OTHER"
       ELSE IF search_mode(blob, "build") THEN "FEATURE_DEV"
       ELSE IF any_match(blob, FEATURE_PATTERNS) THEN "FEATURE_DEV"
       ELSE IF any_match(blob, DEBUG_PATTERNS) THEN "DEBUG_LOG"
       ELSE IF any_match(blob, TEST_DOCS_CI_PATTERNS) THEN "TEST_DOCS_CI"
       ELSE "OTHER"

classify_turn(u_text, a_text) ==
    LET blob == lower(u_text \o <<"\n">> \o a_text)
    IN IF search_mode(blob, "test") THEN "TEST_DOCS_CI"
       ELSE IF search_mode(blob, "docs") THEN "TEST_DOCS_CI"
       ELSE IF search_mode(blob, "ask") THEN "OTHER"
       ELSE IF search_mode(blob, "plan") THEN "OTHER"
       ELSE IF search_mode(blob, "build") THEN "FEATURE_DEV"
       ELSE IF any_match(blob, DEBUG_PATTERNS) THEN "DEBUG_LOG"
       ELSE IF any_match(blob, TEST_DOCS_CI_PATTERNS) THEN "TEST_DOCS_CI"
       ELSE IF any_match(blob, FEATURE_PATTERNS) THEN "FEATURE_DEV"
       ELSE "OTHER"

\* values of the variables a specification does not use
ImportIdle ==
    /\ csv_exists = FALSE /\ csv_rows = <<>> /\ limit = 0 /\ i = 0
    /\ facts = <<>> /\ result = <<>> /\ output_file = "none"
ChatIdle ==
    /\ items = <<>> /\ msgs = <<>> /\ cap_minutes = 0
    /\ turns = <<>> /\ summary = None
ClassifyIdle ==
    /\ user_text = <<>> /\ assistant_text = <<>> /\ label = None

(*************************************************************************)
(* classify_turn as a one-step machine                                    *)
(*************************************************************************)
InitClassify ==
    /\ pc = "classify"
    /\ user_text \in SeqsUpTo(Vocabulary, MaxBlobLen)
    /\ assistant_text \in SeqsUpTo(Vocabulary, MaxBlobLen - Len(user_text))
    /\ label = None
    /\ ImportIdle /\ ChatIdle

Classify ==
    /\ pc = "classify"
    /\ label' = classify_turn(user_text, assistant_text)
    /\ pc' = "classified"
    /\ UNCHANGED <<user_text, assistant_text, importVars, chatVars>>

NextClassify == Classify

SpecClassify == InitClassify /\ [][NextClassify]_vars

(*************************************************************************)
(* chat_metrics.py: read_chat                                             *)
(*************************************************************************)
\* A timestamp of the export is a string in one of these forms, standing
\* for the time t (seconds after some day's midnight):
\*   ""        empty (or the key is missing: m.get gives None)
\*   "bad"     not a timestamp
\*   "isoZ"    2025-11-10T00:00:10Z       matches DT_FORMATS[1]
\*   "space"   2025-11-10 00:00:10        matches DT_FORMATS[2]
\*   "offset"  2025-11-10T00:00:10+00:00  only datetime.fromisoformat reads it
RawTs(form, t) == [form |-> form, t |-> t]

\* a datetime: naive, or aware when the string carried a UTC offset
DateTime(t, aware) == [t |-> t, aware |-> aware]

\* what parse_dt raises on a string it cannot read
ValueError == [raises |-> "ValueError"]

parse_dt(s) ==
    IF s.form \in {"isoZ", "space"} THEN DateTime(s.t, FALSE)
    ELSE IF s.form = "offset" THEN DateTime(s.t, TRUE)
    ELSE ValueError

\* role strings of the export and str.lower() on them
LowerRole(role) == IF role = "User" THEN "user" ELSE role

RawTimestamps ==
    {RawTs("", 0), RawTs("bad", 0), RawTs("isoZ", 2), RawTs("space", 1),
     RawTs("offset", 1)}
RawRoles == {"", "User", "assistant"}

\* the message objects an export may hold
RawItems == [timestamp : RawTimestamps, role : RawRoles, content : {<<"plan">>}]

\* the loop body appends a message for m (neither continue is taken)
Collects(m) ==
    /\ ~(m.timestamp.form = "" \/ m.role = "")
    /\ parse_dt(m.timestamp) # ValueError

RECURSIVE Collect(_)
\* the list msgs after the loop over items
Collect(its) ==
    IF its = <<>> THEN <<>>
    ELSE IF Collects(Head(its))
         THEN <<[timestamp |-> parse_dt(Head(its).timestamp),
                 role |-> LowerRole(Head(its).role),
                 content |-> Head(its).content]>> \o Collect(Tail(its))
         ELSE Collect(Tail(its))

\* datetime.__lt__ raises TypeError between a naive and an aware value; a
\* sort of a list holding both kinds has to compare two such values
SortRaises(ms) ==
    \E a, b \in 1..Len(ms) : ms[a].timestamp.aware # ms[b].timestamp.aware

RECURSIVE Insert(_, _)
\* binary insertion of m into the sorted run: after every element whose
\* key is not greater
Insert(run, m) ==
    IF run = <<>> THEN <<m>>
    ELSE IF m.timestamp.t < Head(run).timestamp.t THEN <<m>> \o run
    ELSE <<Head(run)>> \o Insert(Tail(run), m)

RECURSIVE SortInto(_, _)
SortInto(run, rest) ==
    IF rest = <<>> THEN run
    ELSE SortInto(Insert(run, Head(rest)), Tail(rest))

\* msgs.sort(key=lambda m: m["timestamp"])
sort(ms) == SortInto(<<>>, ms)

InitRead ==
    /\ pc = "start"
    /\ items \in SeqsUpTo(RawItems, MaxItems)
    /\ msgs = <<>> /\ cap_minutes = 0 /\ turns = <<>> /\ summary = None
    /\ ImportIdle /\ ClassifyIdle

\* read_chat returns the sorted list
ReadChat ==
    /\ pc = "start"
    /\ ~SortRaises(Collect(items))
    /\ msgs' = sort(Collect(items))
    /\ pc' = "loaded"
    /\ UNCHANGED <<items, cap_minutes, turns, summary, importVars,
                   classifyVars>>

\* the sort raises TypeError, which read_chat and main let through
ReadChatSortRaises ==
    /\ pc = "start"
    /\ SortRaises(Collect(items))
    /\ pc' = "raised"
    /\ UNCHANGED <<chatVars, importVars, classifyVars>>

NextRead ==
    \/ ReadChat
    \/ ReadChatSortRaises

SpecRead == InitRead /\ [][NextRead]_vars

(*************************************************************************)
(* chat_metrics.py: group_turns, summarize                                *)
(*************************************************************************)
\* seconds in a minute, characters per estimated token, minutes added to
\* the cap for the last turn, characters of an excerpt
SecondsPerMinute == 60
CharsPerToken == 4
SentinelMinutes == 5
ExcerptChars == 140

\* round(num / den, 0) for num >= 0, den > 0: to nearest, ties to even
RoundDiv(num, den) ==
    LET q == num \div den
        r == num % den
    IN IF 2 * r < den THEN q
       ELSE IF 2 * r > den THEN q + 1
       ELSE IF q % 2 = 0 THEN q ELSE q + 1

\* round(dur.total_seconds()/60, 2), in hundredths of a minute
RoundMinutes(seconds) == RoundDiv(seconds * 100, SecondsPerMinute)

\* datetime.isoformat(sep=" "): the fields of "HH:MM:SS", and the offset
\* of an aware value
isoformat(dt) ==
    [hh |-> dt.t \div 3600, mm |-> (dt.t \div 60) % 60, ss |-> dt.t % 60,
     offset |-> dt.aware]

token_estimate(text) ==
    IF text # <<>> THEN (len(text) + CharsPerToken - 1) \div CharsPerToken
    ELSE 0

\* variant: every message starts a turn
user_indices_all(ms) == [k \in 1..Len(ms) |-> k]

RECURSIVE UsersFrom(_, _)
UsersFrom(ms, k) ==
    IF k > Len(ms) THEN <<>>
    ELSE IF ms[k].role = "user" THEN <<k>> \o UsersFrom(ms, k + 1)
    ELSE UsersFrom(ms, k + 1)

\* [i for i,m in enumerate(msgs) if m["role"]=="user"], positions from 1
user_indices(ms) == UsersFrom(ms, 1)

RECURSIVE FindAssistant_no_break(_, _)
\* variant: the scan does not stop at the next user message
FindAssistant_no_break(ms, j) ==
    IF j > Len(ms) THEN 0
    ELSE IF ms[j].role = "assistant" THEN j
    ELSE FindAssistant_no_break(ms, j + 1)

RECURSIVE FindAssistant(_, _)
\* the for j loop: position of ai, 0 for ai = None
FindAssistant(ms, j) ==
    IF j > Len(ms) THEN 0
    ELSE IF ms[j].role = "assistant" THEN j
    ELSE IF ms[j].role = "user" THEN 0
    ELSE FindAssistant(ms, j + 1)

\* variant: the duration is not capped
Duration_uncapped(next_u, u_ts, cap) == next_u - u_ts

\* dur = min(next_u - u["timestamp"], timedelta(minutes=cap_minutes)), in
\* seconds
Duration(next_u, u_ts, cap) ==
    IF next_u - u_ts <= cap * SecondsPerMinute THEN next_u - u_ts
    ELSE cap * SecondsPerMinute

\* u["content"][:140] + ("..." if len(u["content"])>140 else "")
Excerpt(text) ==
    IF len(text) > ExcerptChars THEN <<"cut", text>> ELSE text

\* the turn of the idx-th user message
Turn(ms, cap, uis, idx) ==
    LET ui == uis[idx]
        u == ms[ui]
        next_u == IF idx + 1 <= Len(uis) THEN ms[uis[idx + 1]].timestamp.t
                  ELSE u.timestamp.t + (cap + SentinelMinutes) * SecondsPerMinute
        ai == FindAssistant(ms, ui + 1)
        dur == Duration(next_u, u.timestamp.t, cap)
        a_text == IF ai # 0 THEN ms[ai].content ELSE <<>>
    IN [user_time |-> isoformat(u.timestamp),
        duration_minutes |-> RoundMinutes(dur),
        category |-> classify_turn(u.content, a_text),
        user_chars |-> len(u.content),
        assistant_chars |-> len(a_text),
        tokens_est |-> token_estimate(u.content) + token_estimate(a_text),
        user_excerpt |-> Excerpt(u.content),
        a_text |-> a_text]     \* the local a_text, kept for inspection

group_turns(ms, cap) ==
    LET uis == user_indices(ms)
    IN [idx \in 1..Len(uis) |-> Turn(ms, cap, uis, idx)]

Categories == {"DEBUG_LOG", "FEATURE_DEV", "TEST_DOCS_CI", "OTHER"}

RECURSIVE SumField(_, _, _)
\* totals[c][field] after the loop over turns
SumField(ts, c, field) ==
    IF ts = <<>> THEN 0
    ELSE (IF Head(ts).category = c THEN Head(ts)[field] ELSE 0)
            + SumField(Tail(ts), c, field)

RECURSIVE SumOver(_, _)
\* sum(f[c] for c in cats)
SumOver(f, cats) ==
    IF cats = {} THEN 0
    ELSE LET c == CHOOSE x \in cats : TRUE
         IN f[c] + SumOver(f, cats \ {c})

\* variant: the share is computed without looking at the grand total; -1
\* stands for the ZeroDivisionError of v/0
Share_unguarded(v, grand) ==
    IF grand = 0 THEN -1 ELSE RoundDiv(v * 1000, grand)

\* round((v/grand*100) if grand else 0, 1), in tenths of a percent
Share(v, grand) ==
    IF grand # 0 THEN RoundDiv(v * 1000, grand) ELSE 0

summarize(ts) ==
    LET mins == [c \in Categories |-> SumField(ts, c, "duration_minutes")]
        tokens == [c \in Categories |-> SumField(ts, c, "tokens_est")]
        grand_mins == SumOver(mins, Categories)
        grand_tokens == SumOver(tokens, Categories)
    IN [totals |-> [c \in Categories |->
                      [mins |-> mins[c],
                       mins_share |-> Share(mins[c], grand_mins),
                       tokens |-> tokens[c],
                       tokens_share |-> Share(tokens[c], grand_tokens)]],
        grand |-> [mins |-> grand_mins, tokens |-> grand_tokens]]

\* timestamps (seconds), caps (minutes) and texts of the messages
Times == {0, 10, 2100}
Caps == {0, 20}
Contents == {<<>>, <<"traceback">>, <<"implement">>}

\* the messages read_chat can return: a parsed naive timestamp, a
\* lower-case non-empty role, a text
Messages ==
    [timestamp : {DateTime(t, FALSE) : t \in Times},
     role : {"user", "assistant"}, content : Contents]
    \cup [timestamp : {DateTime(t, FALSE) : t \in Times},
          role : {"system"}, content : {<<>>}]

IsSorted(ms) ==
    \A k \in 1..(Len(ms) - 1) : ms[k].timestamp.t <= ms[k + 1].timestamp.t

\* main after msgs = read_chat(...): any sorted list read_chat can return
InitTurns ==
    /\ pc = "loaded"
    /\ items = <<>>
    /\ msgs \in {ms \in SeqsUpTo(Messages, MaxMsgs) : IsSorted(ms)}
    /\ cap_minutes \in Caps
    /\ turns = <<>>
    /\ summary = None
    /\ ImportIdle /\ ClassifyIdle

\* main: if not msgs: raise SystemExit
MainNoMessages ==
    /\ pc = "loaded" /\ msgs = <<>>
    /\ pc' = "exit"
    /\ UNCHANGED <<chatVars, importVars, classifyVars>>

\* main: turns = group_turns(msgs, cap_minutes=args.cap_mins)
GroupTurns ==
    /\ pc = "loaded" /\ msgs # <<>>
    /\ turns' = group_turns(msgs, cap_minutes)
    /\ pc' = "grouped"
    /\ UNCHANGED <<items, msgs, cap_minutes, summary, importVars,
                   classifyVars>>

\* main: summary = summarize(turns)
Summarize ==
    /\ pc = "grouped"
    /\ summary' = summarize(turns)
    /\ pc' = "summarized"
    /\ UNCHANGED <<items, msgs, cap_minutes, turns, importVars, classifyVars>>

NextTurns ==
    \/ MainNoMessages
    \/ GroupTurns
    \/ Summarize

SpecTurns == InitTurns /\ [][NextTurns]_vars

(*************************************************************************)
(* cfpb_importer.py                                                       *)
(*************************************************************************)
\* A cell of the CSV is absent (row.get gives None) or a string, kept as
\* its leading blanks, its body (from the first to the last non-blank
\* character) and its trailing blanks; a string of blanks only has lead > 0
\* and body = 0.
Str(l, b, t) == [lead |-> l, body |-> b, trail |-> t]
EmptyStr == Str(0, 0, 0)

\* len(s)
StrLen(s) == s.lead + s.body + s.trail
\* s.strip()
strip(s) == Str(0, s.body, 0)
\* the value of row.get(column) when the column is absent
NoCell == [absent |-> TRUE]
\* truth value of a cell: None and '' are false
Truthy(cell) == cell # NoCell /\ StrLen(cell) > 0
\* a or b or ''
OrElse(a, b) == IF Truthy(a) THEN a ELSE IF Truthy(b) THEN b ELSE EmptyStr

\* minimum length of a narrative
MinNarrative == 50

\* the row the reader cannot produce: reading it raises (decoding, csv.Error)
ReadErr == [raises |-> TRUE]

\* cells of 'Consumer complaint narrative'
NarrativeCells == {NoCell, EmptyStr, Str(2, 0, 0),
                   Str(1, MinNarrative - 1, 0), Str(0, MinNarrative, 1)}
\* cells of 'consumer_complaint_narrative'
AltNarrativeCells == {NoCell, Str(0, MinNarrative + 1, 0)}

Rows == [narrative : NarrativeCells, narrative_alt : AltNarrativeCells]

\* narrative = (row.get(..) or row.get(..) or '').strip()
RowNarrative(row) == strip(OrElse(row.narrative, row.narrative_alt))

\* variant: the length test rejects a narrative of exactly the minimum
Keeps_strict(narrative) ==
    ~(StrLen(narrative) = 0 \/ StrLen(narrative) <= MinNarrative)

\* the negation of: not narrative or len(narrative) < 50
Keeps(narrative) ==
    ~(StrLen(narrative) = 0 \/ StrLen(narrative) < MinNarrative)

\* the fact built from a row; the other fields of the record are copies of
\* columns that play no part in filtering or counting
Fact(narrative) == [plaintiff |-> "Consumer", incident |-> narrative]

\* variant: the limit test lets one more row through
LimitHit_late(idx, lim) == idx > lim

\* if i >= limit: break
LimitHit(idx, lim) == idx >= lim

InitImport ==
    /\ pc = "start"
    /\ csv_exists \in BOOLEAN
    /\ csv_rows \in SeqsUpTo(Rows \cup {ReadErr}, MaxRows)
    /\ ~csv_exists => csv_rows = <<>>
    /\ limit \in 0..MaxLimit
    /\ i = 0
    /\ facts = <<>>
    /\ result = <<>>
    /\ output_file = "none"
    /\ ChatIdle /\ ClassifyIdle

\* open() raises FileNotFoundError (or another error): return []
OpenFails ==
    /\ pc = "start" /\ ~csv_exists
    /\ result' = <<>>
    /\ pc' = "returned"
    /\ UNCHANGED <<csv_exists, csv_rows, limit, i, facts, output_file,
                   chatVars, classifyVars>>

\* open() and csv.DictReader(f)
Open ==
    /\ pc = "start" /\ csv_exists
    /\ pc' = "reading"
    /\ UNCHANGED <<importVars, chatVars, classifyVars>>

\* variant: the handler returns what was collected so far
ReadFails_keeps_facts ==
    /\ pc = "reading"
    /\ i < Len(csv_rows) /\ csv_rows[i + 1] = ReadErr
    /\ result' = facts
    /\ pc' = "returned"
    /\ UNCHANGED <<csv_exists, csv_rows, limit, i, facts, output_file,
                   chatVars, classifyVars>>

\* the reader raises while producing row i: except Exception: return []
ReadFails ==
    /\ pc = "reading"
    /\ i < Len(csv_rows) /\ csv_rows[i + 1] = ReadErr
    /\ result' = <<>>
    /\ pc' = "returned"
    /\ UNCHANGED <<csv_exists, csv_rows, limit, i, facts, output_file,
                   chatVars, classifyVars>>

\* row i was read and i >= limit: break, return facts
LimitReached ==
    /\ pc = "reading"
    /\ i < Len(csv_rows) /\ csv_rows[i + 1] # ReadErr
    /\ LimitHit(i, limit)
    /\ result' = facts
    /\ pc' = "returned"
    /\ UNCHANGED <<csv_exists, csv_rows, limit, i, facts, output_file,
                   chatVars, classifyVars>>

\* one pass of the loop body on row i
ExamineRow ==
    /\ pc = "reading"
    /\ i < Len(csv_rows) /\ csv_rows[i + 1] # ReadErr
    /\ ~LimitHit(i, limit)
    /\ LET narrative == RowNarrative(csv_rows[i + 1])
       IN facts' = IF Keeps(narrative) THEN Append(facts, Fact(narrative))
                   ELSE facts
    /\ i' = i + 1
    /\ UNCHANGED <<pc, csv_exists, csv_rows, limit, result, output_file,
                   chatVars, classifyVars>>

\* the reader is exhausted: return facts
EndOfInput ==
    /\ pc = "reading"
    /\ i = Len(csv_rows)
    /\ result' = facts
    /\ pc' = "returned"
    /\ UNCHANGED <<csv_exists, csv_rows, limit, i, facts, output_file,
                   chatVars, classifyVars>>

\* main: if not facts: return
MainNoFacts ==
    /\ pc = "returned" /\ result = <<>>
    /\ pc' = "done"
    /\ UNCHANGED <<importVars, chatVars, classifyVars>>

\* main: json.dump(facts, f)
MainWrite ==
    /\ pc = "returned" /\ result # <<>>
    /\ output_file' = result
    /\ pc' = "done"
    /\ UNCHANGED <<csv_exists, csv_rows, limit, i, facts, result,
                   chatVars, classifyVars>>

NextImport ==
    \/ OpenFails
    \/ Open
    \/ ReadFails
    \/ LimitReached
    \/ ExamineRow
    \/ EndOfInput
    \/ MainNoFacts
    \/ MainWrite

SpecImport == InitImport /\ [][NextImport]_vars

(*************************************************************************)
(* Properties of read_chat                                                *)
(*************************************************************************)
\* a message with a non-empty timestamp that parses and a non-empty role
ValidItem(m) ==
    /\ m.timestamp.form \notin {"", "bad"}
    /\ m.role # ""

\* the message read_chat builds from a valid item
AsMessage(m) ==
    [timestamp |-> DateTime(m.timestamp.t, m.timestamp.form = "offset"),
     role |-> IF m.role = "User" THEN "user" ELSE m.role,
     content |-> m.content]

RECURSIVE ValidAt(_, _)
\* the messages of the valid items of its whose time is t, in input order
ValidAt(its, t) ==
    IF its = <<>> THEN <<>>
    ELSE IF ValidItem(Head(its)) /\ Head(its).timestamp.t = t
         THEN <<AsMessage(Head(its))>> \o ValidAt(Tail(its), t)
         ELSE ValidAt(Tail(its), t)

RECURSIVE LoadedAt(_, _)
\* the elements of ms whose time is t, in the order of ms
LoadedAt(ms, t) ==
    IF ms = <<>> THEN <<>>
    ELSE IF Head(ms).timestamp.t = t
         THEN <<Head(ms)>> \o LoadedAt(Tail(ms), t)
         ELSE LoadedAt(Tail(ms), t)

ItemTimes == {ts.t : ts \in RawTimestamps}

\* msgs holds each valid item once, ascending by time, equal times in
\* input order
LoadedExactly ==
    /\ \A k \in 1..Len(msgs) : msgs[k].timestamp.t \in ItemTimes
    /\ \A t \in ItemTimes : LoadedAt(msgs, t) = ValidAt(items, t)
    /\ \A k \in 1..(Len(msgs) - 1) :
           msgs[k].timestamp.t <= msgs[k + 1].timestamp.t

\* C8: every load of a recognized shape ends with the valid messages,
\* each once, ascending by timestamp, ties in input order; no message
\* aborts the load
Claim_C8 == pc # "start" => (pc = "loaded" /\ LoadedExactly)

\* what does hold: a load that returns, returns exactly that list
LoadedWhenReturned == pc = "loaded" => LoadedExactly

\* a load that returned three messages given out of order, two of them
\* with the same time
LoadedOutOfOrder ==
    /\ pc = "loaded" /\ Len(msgs) = 3
    /\ items[1].timestamp.t > items[3].timestamp.t
    /\ msgs[2].timestamp.t = msgs[3].timestamp.t
    /\ msgs[2].role # msgs[3].role

(*************************************************************************)
(* Properties of group_turns and summarize                                *)
(*************************************************************************)
\* positions of the user messages of msgs
UserPositions == {p \in 1..Len(msgs) : msgs[p].role = "user"}

\* the position of the k-th user message
KthUser(k) ==
    CHOOSE p \in UserPositions :
        Cardinality({q \in UserPositions : q <= p}) = k

\* position of the first user message after p, Len(msgs) + 1 if none
NextUser(p) ==
    IF \E q \in UserPositions : q > p
    THEN CHOOSE q \in UserPositions :
             q > p /\ \A r \in UserPositions : r > p => q <= r
    ELSE Len(msgs) + 1

\* C1 as stated: the credited duration is exactly min(gap, cap), and
\* exactly cap for the last user message
Orig_C1 ==
    pc = "grouped" =>
        \A k \in 1..Len(turns) :
            LET p == KthUser(k)
                n == NextUser(p)
                credited == turns[k].duration_minutes   \* hundredths of a minute
                gap == msgs[n].timestamp.t - msgs[p].timestamp.t   \* seconds
            IN IF n <= Len(msgs)
               THEN credited * 60 = 100 * Min(gap, cap_minutes * 60)
               ELSE credited = 100 * cap_minutes

\* C1 amended: the credited duration is min(gap, cap) in minutes rounded
\* to two decimals (within half a hundredth of it), exactly cap for the
\* last user message and whenever the gap is at least the cap, and always
\* between 0 and cap
Thm_C1 ==
    pc = "grouped" =>
        \A k \in 1..Len(turns) :
            LET p == KthUser(k)
                n == NextUser(p)
                credited == turns[k].duration_minutes
                gap == msgs[n].timestamp.t - msgs[p].timestamp.t
                exact == 100 * Min(gap, cap_minutes * 60)   \* credited * 60
            IN /\ 0 <= credited /\ credited <= 100 * cap_minutes
               /\ IF n <= Len(msgs)
                  THEN /\ credited * 60 - exact <= 30
                       /\ exact - credited * 60 <= 30
                       /\ gap >= cap_minutes * 60 => credited = 100 * cap_minutes
                  ELSE credited = 100 * cap_minutes

\* two user messages 35 minutes apart, cap 20: the first is credited 20.00
Wit_C1 ==
    /\ pc = "grouped" /\ cap_minutes = 20
    /\ Len(turns) >= 2
    /\ msgs[KthUser(2)].timestamp.t - msgs[KthUser(1)].timestamp.t = 35 * 60
    /\ turns[1].duration_minutes = 2000

\* C2: the response of a turn is the first assistant message after the
\* user message and before the next user message; without one the
\* response text is empty and assistant_chars is 0
Thm_C2 ==
    pc = "grouped" =>
        \A k \in 1..Len(turns) :
            LET p == KthUser(k)
                replies == {j \in (p + 1)..(NextUser(p) - 1) :
                               msgs[j].role = "assistant"}
            IN IF replies # {}
               THEN LET first == CHOOSE j \in replies :
                                     \A r \in replies : j <= r
                    IN /\ turns[k].a_text = msgs[first].content
                       /\ turns[k].assistant_chars = len(msgs[first].content)
               ELSE /\ turns[k].a_text = <<>>
                    /\ turns[k].assistant_chars = 0

\* a user message followed at once by another one has no response although
\* an assistant message comes later, which the second user message gets
Wit_C2 ==
    /\ pc = "grouped" /\ Len(msgs) = 3 /\ Len(turns) = 2
    /\ msgs[1].role = "user" /\ msgs[2].role = "user"
    /\ msgs[3].role = "assistant" /\ msgs[3].content # <<>>
    /\ turns[1].a_text = <<>> /\ turns[1].assistant_chars = 0
    /\ turns[2].a_text = msgs[3].content

\* C3: one turn per user message, in order: as many turns as user
\* messages, the k-th turn's user_time is the k-th user message's time
Thm_C3 ==
    pc = "grouped" =>
        /\ Len(turns) = Cardinality(UserPositions)
        /\ \A k \in 1..Len(turns) :
               LET t == msgs[KthUser(k)].timestamp.t
               IN /\ turns[k].user_time.hh * 3600 + turns[k].user_time.mm * 60
                         + turns[k].user_time.ss = t
                  /\ turns[k].user_chars = len(msgs[KthUser(k)].content)

\* two turns from three messages, the first of which is no user message
Wit_C3 ==
    /\ pc = "grouped" /\ Len(msgs) = 3 /\ Len(turns) = 2
    /\ msgs[1].role # "user"
    /\ msgs[2].timestamp.t < msgs[3].timestamp.t

\* C9: a share is 0 when its grand total is 0; for no turns at all the
\* four categories are there with totals 0 and shares 0, and both grand
\* totals are 0
Thm_C9 ==
    pc = "summarized" =>
        /\ DOMAIN summary.totals = Categories
        /\ summary.grand.mins = 0 =>
               \A c \in Categories : summary.totals[c].mins_share = 0
        /\ summary.grand.tokens = 0 =>
               \A c \in Categories : summary.totals[c].tokens_share = 0
        /\ turns = <<>> =>
               /\ summary.grand = [mins |-> 0, tokens |-> 0]
               /\ \A c \in Categories :
                      summary.totals[c] = [mins |-> 0, mins_share |-> 0,
                                           tokens |-> 0, tokens_share |-> 0]

\* a summary of no turns (messages, none of them a user message)
Wit_C9 ==
    /\ pc = "summarized" /\ msgs # <<>> /\ turns = <<>>
    /\ summary.grand = [mins |-> 0, tokens |-> 0]

(*************************************************************************)
(* Properties of the importer                                             *)
(*************************************************************************)
\* the row's narrative after trimming: the body of the first of the two
\* columns that holds a non-empty string, '' when neither does
Trimmed(row) ==
    LET a == row.narrative
        b == row.narrative_alt
    IN IF a # NoCell /\ a # EmptyStr THEN Str(0, a.body, 0)
       ELSE IF b # NoCell /\ b # EmptyStr THEN Str(0, b.body, 0)
       ELSE EmptyStr

Qualifies(row) == Trimmed(row).body >= 50

RECURSIVE QualifyingFacts(_)
\* the facts of the qualifying rows of rs, in the order of rs
QualifyingFacts(rs) ==
    IF rs = <<>> THEN <<>>
    ELSE IF Qualifies(Head(rs))
         THEN <<[plaintiff |-> "Consumer", incident |-> Trimmed(Head(rs))]>>
                 \o QualifyingFacts(Tail(rs))
         ELSE QualifyingFacts(Tail(rs))

\* the source opens and every row of it can be read
Readable == csv_exists /\ \A k \in 1..Len(csv_rows) : csv_rows[k] # ReadErr

\* the call ended in one of the except clauses
Errored ==
    \/ ~csv_exists
    \/ i < Len(csv_rows) /\ csv_rows[i + 1] = ReadErr

\* C6 as stated: the result is the first min(limit, q) qualifying rows of
\* the whole input; rows that do not qualify do not count against limit
Orig_C6 ==
    (pc = "returned" /\ Readable) =>
        result = Take(QualifyingFacts(csv_rows), limit)

\* C6 amended: limit counts the rows read, qualifying or not: the result
\* is the qualifying rows among the first min(limit, n) rows of the input,
\* in input order (so never more than limit records)
Thm_C6 ==
    (pc = "returned" /\ Readable) =>
        /\ result = QualifyingFacts(Take(csv_rows, limit))
        /\ Len(result) <= limit

\* more qualifying rows than the limit: exactly limit records come back
Wit_C6 ==
    /\ pc = "returned" /\ Readable
    /\ limit >= 1 /\ Len(csv_rows) > limit
    /\ \A k \in 1..Len(csv_rows) : Qualifies(csv_rows[k])
    /\ Len(result) = limit

\* C7: of the rows examined so far, exactly those whose trimmed narrative
\* has at least 50 characters have a fact, in order, and the fact's
\* incident is the trimmed narrative
Thm_C7 ==
    pc = "reading" =>
        /\ i <= Len(csv_rows)
        /\ \A k \in 1..i : csv_rows[k] # ReadErr
        /\ facts = QualifyingFacts(Take(csv_rows, i))

\* two rows were examined: 49 characters after trimming (50 before) left
\* no fact, exactly 50 left one
Wit_C7 ==
    /\ pc = "reading" /\ i = 2
    /\ csv_rows[1].narrative = Str(1, 49, 0)
    /\ csv_rows[1].narrative_alt = NoCell
    /\ Trimmed(csv_rows[2]).body = 50
    /\ facts = <<[plaintiff |-> "Consumer", incident |-> Str(0, 50, 0)]>>

\* C10: a call that ended in an except clause returned the empty list,
\* whatever had been collected, and main writes no file for an empty list
Thm_C10 ==
    /\ (pc \in {"returned", "done"} /\ Errored) => result = <<>>
    /\ (pc = "done" /\ result = <<>>) => output_file = "none"
    /\ (pc = "done" /\ result # <<>>) => output_file = result

\* a row failed after facts had been collected: empty result, no file
Wit_C10 ==
    /\ pc = "done" /\ csv_exists /\ Errored
    /\ facts # <<>>
    /\ result = <<>>
    /\ output_file = "none"

(*************************************************************************)
(* Properties of classify_turn                                            *)
(*************************************************************************)
\* the text the classifier looks at: both texts, one line break between
Concat == user_text \o <<"\n">> \o assistant_text

DebugWords == UNION {DEBUG_PATTERNS[k] : k \in DOMAIN DEBUG_PATTERNS}
TestDocsCiWords ==
    UNION {TEST_DOCS_CI_PATTERNS[k] : k \in DOMAIN TEST_DOCS_CI_PATTERNS}
FeatureWords == UNION {FEATURE_PATTERNS[k] : k \in DOMAIN FEATURE_PATTERNS}

\* position k of text holds a whole word: no word character touches it
WholeLeft(text, k) == k = 1 \/ ~WordEnd(text[k-1])
WholeRight(text, k) == k = Len(text) \/ ~WordStart(text[k+1])

\* some whole word of text is one of words, whatever its case
HasKeyword(text, words) ==
    \E k \in 1..Len(text) :
        /\ LowerTok(text[k]) \in words
        /\ WholeLeft(text, k) /\ WholeRight(text, k)

\* "MODE:", optional whitespace, tag; any case; nothing said of the
\* characters around it
ContainsMarker(text, tag) ==
    \E k, j \in 1..Len(text) :
        /\ k < j
        /\ LowerTok(text[k]) = "mode:"
        /\ \A m \in (k+1)..(j-1) : IsSpace(text[m])
        /\ LowerTok(text[j]) = tag

\* the same, MODE starting a word and tag ending one
ContainsWholeMarker(text, tag) ==
    \E k, j \in 1..Len(text) :
        /\ k < j
        /\ LowerTok(text[k]) = "mode:" /\ WholeLeft(text, k)
        /\ \A m \in (k+1)..(j-1) : IsSpace(text[m])
        /\ LowerTok(text[j]) = tag /\ WholeRight(text, j)

ModeTags == {"test", "docs", "ask", "plan", "build"}

NoWholeMarker == \A tag \in ModeTags : ~ContainsWholeMarker(Concat, tag)

\* C4: without a mode marker the label is that of the first rule that
\* matches, in the order debug, test/docs/CI, feature, else OTHER
Thm_C4 ==
    (pc = "classified" /\ NoWholeMarker) =>
        label = IF HasKeyword(Concat, DebugWords) THEN "DEBUG_LOG"
                ELSE IF HasKeyword(Concat, TestDocsCiWords) THEN "TEST_DOCS_CI"
                ELSE IF HasKeyword(Concat, FeatureWords) THEN "FEATURE_DEV"
                ELSE "OTHER"

\* a text with "traceback" and "implement" and no marker came out DEBUG_LOG
Wit_C4 ==
    /\ pc = "classified" /\ NoWholeMarker
    /\ HasKeyword(Concat, {"traceback"})
    /\ HasKeyword(Concat, {"implement"})
    /\ label = "DEBUG_LOG"

\* C5 as stated: any text holding a build marker is FEATURE_DEV, any
\* holding a test or docs marker TEST_DOCS_CI, any holding an ask or plan
\* marker OTHER
Orig_C5 ==
    pc = "classified" =>
        /\ ContainsMarker(Concat, "build") => label = "FEATURE_DEV"
        /\ (ContainsMarker(Concat, "test") \/ ContainsMarker(Concat, "docs"))
               => label = "TEST_DOCS_CI"
        /\ (ContainsMarker(Concat, "ask") \/ ContainsMarker(Concat, "plan"))
               => label = "OTHER"

\* C5 amended: a marker is MODE: starting a word, optional whitespace and
\* the tag ending a word; the first marker present in the order test,
\* docs, ask, plan, build decides the label, whatever keywords match
Thm_C5 ==
    pc = "classified" =>
        LET has(tag) == ContainsWholeMarker(Concat, tag)
        IN /\ (has("test") \/ has("docs")) => label = "TEST_DOCS_CI"
           /\ ((has("ask") \/ has("plan")) /\ ~has("test") /\ ~has("docs"))
                  => label = "OTHER"
           /\ (has("build") /\ ~has("test") /\ ~has("docs")
                  /\ ~has("ask") /\ ~has("plan"))
                  => label = "FEATURE_DEV"

\* a build marker next to a debug keyword came out FEATURE_DEV
Wit_C5 ==
    /\ pc = "classified"
    /\ ContainsWholeMarker(Concat, "build")
    /\ HasKeyword(Concat, DebugWords)
    /\ label = "FEATURE_DEV"
=============================================================================
